---- MODULE Spec2Model ----
(***************************************************************************)
(* mdstore: AtomicWrite (temp file + rename), WithLock (flock variant and  *)
(* O_CREATE|O_EXCL retry-loop variant), ReadYAML / WriteYAML / AppendYAML, *)
(* ParseFrontmatter / RenderFrontmatter, Slugify / UniqueSlug.             *)
(*                                                                         *)
(* Specifications over one set of variables:                               *)
(*   SpecAtomic       AtomicWrite callers racing a reader, at byte level   *)
(*   SpecAppend       unlocked AppendYAML callers on the same files        *)
(*   SpecAppendSeq    one caller calling AppendYAML again and again        *)
(*   SpecReadYAML     ReadYAML on a missing, well-formed or malformed file *)
(*   SpecLock         WithLock callers (either build variant) whose        *)
(*                    callback is AppendYAML                               *)
(*   SpecFlockLive    the flock build under fair scheduling                *)
(*   SpecRetryLive    the retry-loop build under fair scheduling           *)
(*   SpecLockedAppend WithLock-wrapped AppendYAML at byte level with an    *)
(*                    unlocked reader                                      *)
(*   SpecRoundTrip    RenderFrontmatter followed by ParseFrontmatter       *)
(*   SpecParse        ParseFrontmatter on arbitrary contents               *)
(*   SpecSlug         one call of UniqueSlug                               *)
(*   SpecReentrant    WithLock called from inside its own callback         *)
(***************************************************************************)
EXTENDS Integers, Sequences, FiniteSets, TLC

\* ---------------------------------------------------------------- bounds
\* Longest payload, in bytes, handed to AtomicWrite in SpecAtomic.
MaxLen == 2

\* The processes that call AtomicWrite / AppendYAML.
Writers == {"w1", "w2"}

\* Bytes the payloads of SpecAtomic are built from.
Bytes == {1, 2}

\* ------------------------------------------------------------- variables
VARIABLES
    \* --- the file system of the target's directory
    dir,        \* directory: file name -> inode, defined on the names that exist
    content,    \* inode -> the bytes it holds
    prior,      \* what the target held before any call: <<>> absent, <<P>> holding P
    \* --- one AtomicWrite / AppendYAML call per writer
    wpc,        \* position of the writer in its call
    wdata,      \* AtomicWrite's data argument
    wtmp,       \* tmpName
    wfd,        \* inode behind the open descriptor tmp
    werr,       \* the call's return value
    wexisting,  \* AppendYAML's local existing
    witem,      \* AppendYAML's item argument
    \* --- a reader (os.ReadFile on the target)
    rpc, rfd, rbuf, rerr,
    \* --- WithLock on one directory
    variant,     \* the build: "flock" (lock_unix.go) or "retry" (O_CREATE|O_EXCL loop)
    now,         \* the clock, in units of lockRetryInterval
    smallTicks,  \* how many single-interval clock steps were taken
    lockFile,    \* <dir>/.lock: <<>> absent, <<[mtime, owner]>> present
    flockHolder, \* the caller whose descriptor holds the advisory lock, or "none"
    pc,          \* position of each caller in WithLock
    deadline,    \* WithLock's local deadline (retry loop)
    result,      \* what WithLock returned
    cbResult,    \* what the callback fn returned
    existing,    \* the callback's local: the sequence ReadYAML gave it
    cur,         \* the callback's local: the counter value it read
    runs,        \* how many times the caller's callback was started
    sawStale,    \* the caller found the lock file stale at some os.Stat
    removed,     \* the caller removed a lock file it found stale
    crashedAtStart,  \* the holders that had died when the caller called WithLock
    doc,         \* the record sequence in the document the callbacks append to
    counter,     \* the shared counter the callbacks increment
    lockOrder,   \* the callers in the order they acquired the lock
    reads,       \* what the unlocked reader's ReadYAML calls returned, in order
    \* --- one call of ParseFrontmatter / RenderFrontmatter
    fmPc,        \* "idle", "rendered" (RenderFrontmatter returned), "parsed"
    fmMeta,      \* RenderFrontmatter's metadata, as yaml.Marshal writes it
    fmBody,      \* RenderFrontmatter's body argument
    fmContent,   \* ParseFrontmatter's content argument
    fmOut,       \* ParseFrontmatter's results [yamlStr, body]
    \* --- one call of UniqueSlug
    slugS,       \* UniqueSlug's argument s
    slugPc,      \* "idle", "base" (exists(base) is next), "loop", "done"
    slugBase,    \* UniqueSlug's local base
    slugTaken,   \* the slugs exists answers true for
    slugI,       \* the loop's i
    slugOut      \* the slug returned

fsVars == <<dir, content, prior, wpc, wdata, wtmp, wfd, werr, wexisting, witem,
            rpc, rfd, rbuf, rerr>>

\* The variables of the string functions, which no file or lock operation
\* touches.
pureVars == <<fmPc, fmMeta, fmBody, fmContent, fmOut,
              slugS, slugPc, slugBase, slugTaken, slugI, slugOut>>

lockVars == <<variant, now, smallTicks, lockFile, flockHolder, pc, deadline,
              result, cbResult, existing, cur, runs, sawStale, removed, crashedAtStart,
              doc, counter, lockOrder, reads, pureVars>>

vars == <<fsVars, lockVars>>

\* The processes that call WithLock.
Procs == {"p1", "p2", "p3"}

\* What the document the callbacks append to holds before the calls.
DocPrior == <<"old">>

\* No string function is called in the file and lock specifications.
PureUnused ==
    /\ fmPc = "idle"
    /\ fmMeta = <<>>
    /\ fmBody = <<>>
    /\ fmContent = <<>>
    /\ fmOut = <<>>
    /\ slugS = <<>>
    /\ slugPc = "idle"
    /\ slugBase = <<>>
    /\ slugTaken = {}
    /\ slugI = 0
    /\ slugOut = <<>>

\* No WithLock call has been made.
LockIdle ==
    /\ variant = "flock"
    /\ now = 0
    /\ smallTicks = 0
    /\ lockFile = <<>>
    /\ flockHolder = "none"
    /\ pc = [p \in Procs |-> "idle"]
    /\ deadline = [p \in Procs |-> 0]
    /\ result = [p \in Procs |-> "pending"]
    /\ cbResult = [p \in Procs |-> "pending"]
    /\ existing = [p \in Procs |-> <<>>]
    /\ cur = [p \in Procs |-> 0]
    /\ runs = [p \in Procs |-> 0]
    /\ sawStale = [p \in Procs |-> FALSE]
    /\ removed = [p \in Procs |-> FALSE]
    /\ crashedAtStart = [p \in Procs |-> {}]
    /\ doc = DocPrior
    /\ counter = 0
    /\ lockOrder = <<>>
    /\ reads = <<>>

\* No WithLock call is part of SpecAtomic and SpecAppend.
LockUnused ==
    /\ PureUnused
    /\ LockIdle

\* ------------------------------------------------------------ file names
Target == "target"
TmpNames == {".tmp-1", ".tmp-2"}

\* A payload is a run of one byte: payloads of different bytes or lengths
\* differ, and every mix or proper prefix of two of them is told apart.
Run(b, n) == [i \in 1..n |-> b]
Payloads == {Run(b, n) : b \in Bytes, n \in 1..MaxLen}

\* What the target may hold before the calls: payloads of a byte of their own.
PriorPayloads == {Run(0, n) : n \in 1..MaxLen}

\* The inode a name refers to is dir[name]; a fresh inode number.
FreshIno == Cardinality(DOMAIN content) + 1

Exists(name) == name \in DOMAIN dir

\* dir with name bound to inode i / with name unlinked.
Link(d, name, i) == [n \in DOMAIN d \cup {name} |-> IF n = name THEN i ELSE d[n]]
Unlink(d, name) == [n \in DOMAIN d \ {name} |-> d[n]]

\* The bytes visible at the target path, <<>> wrapped: <<>> when absent.
Visible == IF Exists(Target) THEN <<content[dir[Target]]>> ELSE <<>>

IsPrefix(s, t) == Len(s) <= Len(t) /\ SubSeq(t, 1, Len(s)) = s

\* ------------------------------------------------------------------ YAML
\* The records appended are one-character scalars; a sequence of them is
\* written by yaml.Marshal as one "- x\n" line per record ("[]\n" when empty).
Items == {97, 98}

RECURSIVE MarshalItems(_)
MarshalItems(seq) ==
    IF seq = <<>> THEN <<>>
    ELSE <<45, 32, Head(seq), 10>> \o MarshalItems(Tail(seq))

yamlMarshal(seq) == IF seq = <<>> THEN <<91, 93, 10>> ELSE MarshalItems(seq)

\* yaml.Unmarshal into a slice: [ok |-> parsed without error, val |-> the slice].
\* Empty input leaves the destination untouched (nil slice) and is no error.
RECURSIVE UnmarshalItems(_)
UnmarshalItems(data) ==
    IF data = <<>> THEN [ok |-> TRUE, val |-> <<>>]
    ELSE IF Len(data) < 4 \/ data[1] # 45 \/ data[2] # 32 \/ data[3] \notin Items
                          \/ data[4] # 10
         THEN [ok |-> FALSE, val |-> <<>>]
         ELSE LET rest == UnmarshalItems(SubSeq(data, 5, Len(data)))
              IN  [ok |-> rest.ok,
                   val |-> IF rest.ok THEN <<data[3]>> \o rest.val ELSE <<>>]

yamlUnmarshal(data) ==
    IF data = <<91, 93, 10>> THEN [ok |-> TRUE, val |-> <<>>]
    ELSE UnmarshalItems(data)

\* ----------------------------------------------------------- AtomicWrite
rdVars == <<rpc, rfd, rbuf, rerr>>

\* The call returns err ("nil" on success).
Return(w, err) ==
    /\ wpc' = [wpc EXCEPT ![w] = "done"]
    /\ werr' = [werr EXCEPT ![w] = err]

\* A caller invokes AtomicWrite(path, data).
AtomicWriteCall(w) ==
    /\ wpc[w] = "idle"
    /\ \E data \in Payloads : wdata' = [wdata EXCEPT ![w] = data]
    /\ wpc' = [wpc EXCEPT ![w] = "ensure"]
    /\ UNCHANGED <<lockVars, dir, content, prior, wtmp, wfd, werr, wexisting, witem, rdVars>>

\* EnsureDir(dir): os.MkdirAll succeeds.
AtomicWrite_EnsureDir(w) ==
    /\ wpc[w] = "ensure"
    /\ wpc' = [wpc EXCEPT ![w] = "create"]
    /\ UNCHANGED <<lockVars, dir, content, prior, wdata, wtmp, wfd, werr, wexisting, witem, rdVars>>

\* EnsureDir(dir) fails: return err before any temp file exists.  MkdirAll
\* cannot fail on a directory that already holds files.
AtomicWrite_EnsureDirFail(w) ==
    /\ wpc[w] = "ensure"
    /\ DOMAIN dir = {}
    /\ Return(w, "mkdir")
    /\ UNCHANGED <<lockVars, dir, content, prior, wdata, wtmp, wfd, wexisting, witem, rdVars>>

\* Mutant of AtomicWrite_CreateTemp: the payload is staged in the target
\* itself (opened with O_CREATE|O_TRUNC) instead of a temp file.
AtomicWrite_CreateTemp_InPlace(w) ==
    /\ wpc[w] = "create"
    /\ IF Exists(Target)
       THEN /\ dir' = dir
            /\ content' = [content EXCEPT ![dir[Target]] = <<>>]
            /\ wfd' = [wfd EXCEPT ![w] = dir[Target]]
       ELSE /\ dir' = Link(dir, Target, FreshIno)
            /\ content' = [i \in DOMAIN content \cup {FreshIno} |->
                             IF i = FreshIno THEN <<>> ELSE content[i]]
            /\ wfd' = [wfd EXCEPT ![w] = FreshIno]
    /\ wtmp' = [wtmp EXCEPT ![w] = Target]
    /\ wpc' = [wpc EXCEPT ![w] = "write"]
    /\ UNCHANGED <<lockVars, prior, wdata, werr, wexisting, witem, rdVars>>

\* os.CreateTemp(dir, ".tmp-*"): a new empty file under a name not in use.
AtomicWrite_CreateTemp(w) ==
    /\ wpc[w] = "create"
    /\ \E name \in TmpNames :
         /\ ~Exists(name)
         /\ dir' = Link(dir, name, FreshIno)
         /\ wtmp' = [wtmp EXCEPT ![w] = name]
    /\ content' = [i \in DOMAIN content \cup {FreshIno} |->
                     IF i = FreshIno THEN <<>> ELSE content[i]]
    /\ wfd' = [wfd EXCEPT ![w] = FreshIno]
    /\ wpc' = [wpc EXCEPT ![w] = "write"]
    /\ UNCHANGED <<lockVars, prior, wdata, werr, wexisting, witem, rdVars>>

\* os.CreateTemp fails: return err.
AtomicWrite_CreateTempFail(w) ==
    /\ wpc[w] = "create"
    /\ Return(w, "createtemp")
    /\ UNCHANGED <<lockVars, dir, content, prior, wdata, wtmp, wfd, wexisting, witem, rdVars>>

\* tmp.Write(data): the bytes reach the temp file one write at a time (the
\* finest split of the payload; a coarser one passes through a subset of these
\* states).  After the last byte the call moves on to tmp.Close.
AtomicWrite_Write(w) ==
    /\ wpc[w] = "write"
    /\ LET n == Len(content[wfd[w]])
       IN  IF n < Len(wdata[w])
           THEN /\ content' = [content EXCEPT ![wfd[w]] = Append(@, wdata[w][n + 1])]
                /\ wpc' = wpc
           ELSE /\ content' = content
                /\ wpc' = [wpc EXCEPT ![w] = "close"]
    /\ UNCHANGED <<lockVars, dir, prior, wdata, wtmp, wfd, werr, wexisting, witem, rdVars>>

\* tmp.Write fails: tmp.Close(); os.Remove(tmpName); return err.
AtomicWrite_WriteFail(w) ==
    /\ wpc[w] = "write"
    /\ Len(content[wfd[w]]) < Len(wdata[w])
    /\ dir' = Unlink(dir, wtmp[w])
    /\ Return(w, "write")
    /\ UNCHANGED <<lockVars, content, prior, wdata, wtmp, wfd, wexisting, witem, rdVars>>

\* tmp.Close() succeeds.
AtomicWrite_Close(w) ==
    /\ wpc[w] = "close"
    /\ wpc' = [wpc EXCEPT ![w] = "rename"]
    /\ UNCHANGED <<lockVars, dir, content, prior, wdata, wtmp, wfd, werr, wexisting, witem, rdVars>>

\* Mutant of AtomicWrite_CloseFail: the temp file is removed but the close
\* error is swallowed and nil is returned.
AtomicWrite_CloseFail_Swallowed(w) ==
    /\ wpc[w] = "close"
    /\ dir' = Unlink(dir, wtmp[w])
    /\ Return(w, "nil")
    /\ UNCHANGED <<lockVars, content, prior, wdata, wtmp, wfd, wexisting, witem, rdVars>>

\* tmp.Close() fails: os.Remove(tmpName); return err.
AtomicWrite_CloseFail(w) ==
    /\ wpc[w] = "close"
    /\ dir' = Unlink(dir, wtmp[w])
    /\ Return(w, "close")
    /\ UNCHANGED <<lockVars, content, prior, wdata, wtmp, wfd, wexisting, witem, rdVars>>

\* os.Rename(tmpName, path): the target name is rebound to the temp file's
\* inode in one step and the temp name disappears (renaming a name onto
\* itself changes nothing).
AtomicWrite_Rename(w) ==
    /\ wpc[w] = "rename"
    /\ dir' = IF wtmp[w] = Target THEN dir
              ELSE Unlink(Link(dir, Target, dir[wtmp[w]]), wtmp[w])
    /\ Return(w, "nil")
    /\ UNCHANGED <<lockVars, content, prior, wdata, wtmp, wfd, wexisting, witem, rdVars>>

\* os.Rename fails: the error is returned; nothing removes the temp file.
AtomicWrite_RenameFail(w) ==
    /\ wpc[w] = "rename"
    /\ Return(w, "rename")
    /\ UNCHANGED <<lockVars, dir, content, prior, wdata, wtmp, wfd, wexisting, witem, rdVars>>

\* The calling process dies between two steps of AtomicWrite.
AtomicWrite_Crash(w) ==
    /\ wpc[w] \in {"ensure", "create", "write", "close", "rename"}
    /\ wpc' = [wpc EXCEPT ![w] = "crashed"]
    /\ UNCHANGED <<lockVars, dir, content, prior, wdata, wtmp, wfd, werr, wexisting, witem, rdVars>>

AtomicWriteStep(w) ==
    \/ AtomicWrite_EnsureDir(w)
    \/ AtomicWrite_EnsureDirFail(w)
    \/ AtomicWrite_CreateTemp(w)
    \/ AtomicWrite_CreateTempFail(w)
    \/ AtomicWrite_Write(w)
    \/ AtomicWrite_WriteFail(w)
    \/ AtomicWrite_Close(w)
    \/ AtomicWrite_CloseFail(w)
    \/ AtomicWrite_Rename(w)
    \/ AtomicWrite_RenameFail(w)
    \/ AtomicWrite_Crash(w)

\* ---------------------------------------------------------------- reader
wrVars == <<wpc, wdata, wtmp, wfd, werr, wexisting, witem>>

\* os.ReadFile(path) opens the target: the descriptor stays on the inode the
\* name referred to at that moment.
ReadFile_Open ==
    /\ rpc = "idle"
    /\ IF Exists(Target)
       THEN /\ rfd' = dir[Target]
            /\ rpc' = "reading"
            /\ rerr' = rerr
       ELSE /\ rfd' = rfd
            /\ rpc' = "done"
            /\ rerr' = "notexist"
    /\ UNCHANGED <<lockVars, dir, content, prior, wrVars, rbuf>>

\* os.ReadFile reads on from its offset, one byte per read, until end of file.
ReadFile_Read ==
    /\ rpc = "reading"
    /\ LET n == Len(rbuf)
       IN  IF n < Len(content[rfd])
           THEN /\ rbuf' = Append(rbuf, content[rfd][n + 1])
                /\ UNCHANGED <<rpc, rerr>>
           ELSE /\ rbuf' = rbuf
                /\ rpc' = "done"
                /\ rerr' = "nil"
    /\ UNCHANGED <<lockVars, dir, content, prior, wrVars, rfd>>

\* ------------------------------------------------------------ SpecAtomic
\* The target is absent or holds a complete payload; nobody has called yet.
InitFS(priors) ==
    /\ LockUnused
    /\ prior \in priors
    /\ dir = IF prior = <<>> THEN [n \in {} |-> 0] ELSE [n \in {Target} |-> 1]
    /\ content = IF prior = <<>> THEN [i \in {} |-> <<>>] ELSE [i \in {1} |-> prior[1]]
    /\ wpc = [w \in Writers |-> "idle"]
    /\ wdata = [w \in Writers |-> <<>>]
    /\ wtmp = [w \in Writers |-> ""]
    /\ wfd = [w \in Writers |-> 0]
    /\ werr = [w \in Writers |-> "pending"]
    /\ wexisting = [w \in Writers |-> <<>>]
    /\ witem = [w \in Writers |-> 0]
    /\ rpc = "idle"
    /\ rfd = 0
    /\ rbuf = <<>>
    /\ rerr = "pending"

InitAtomic == InitFS({<<>>} \cup {<<p>> : p \in PriorPayloads})

NextAtomic ==
    \/ \E w \in Writers : AtomicWriteCall(w)
    \/ \E w \in Writers : AtomicWriteStep(w)
    \/ ReadFile_Open
    \/ ReadFile_Read

SpecAtomic == InitAtomic /\ [][NextAtomic]_vars

\* The payloads handed to AtomicWrite so far.
Staged == {wdata[w] : w \in {v \in Writers : wpc[v] # "idle"}}

\* C1: the target held a complete payload P1 before the calls.  Whatever the
\* writers' positions (crashed ones included), the bytes visible at the path
\* are exactly P1 or exactly the payload of one AtomicWrite call, and a
\* reader that has finished os.ReadFile got no error and exactly P1 or exactly
\* such a payload: no mix, no prefix, no zero bytes.
C1_ReaderSeesWholePayload ==
    prior # <<>> =>
        /\ Visible # <<>>
        /\ Visible[1] \in {prior[1]} \cup Staged
        /\ rpc = "done" => rerr = "nil" /\ rbuf \in {prior[1]} \cup Staged

\* C1 witness: the reader opened the target before a rename and finished
\* after it (it holds P1 in full while the path shows P2), with the other
\* writer dead in the middle of its write.
C1_Witness ==
    /\ prior # <<>>
    /\ rpc = "done" /\ rbuf = prior[1]
    /\ Visible # prior
    /\ \E w \in Writers :
         /\ wpc[w] = "crashed"
         /\ Exists(wtmp[w])
         /\ Len(content[wfd[w]]) \in 1..(Len(wdata[w]) - 1)

\* ------------------------------------------------------------ AppendYAML
\* Longest record sequence the document holds before the calls.
MaxPrior == 1

\* A caller invokes AppendYAML(path, item).
AppendYAMLCall(w) ==
    /\ wpc[w] = "idle"
    /\ \E item \in Items : witem' = [witem EXCEPT ![w] = item]
    /\ wpc' = [wpc EXCEPT ![w] = "readyaml"]
    /\ UNCHANGED <<lockVars, dir, content, prior, wdata, wtmp, wfd, werr, wexisting, rdVars>>

\* Mutant of AppendYAML_ReadYAML: the item is put in front of the sequence
\* read instead of after it.
AppendYAML_ReadYAML_Prepend(w) ==
    /\ wpc[w] = "readyaml"
    /\ LET u == IF Exists(Target) THEN yamlUnmarshal(content[dir[Target]])
                ELSE [ok |-> TRUE, val |-> <<>>]
           appended == <<witem[w]>> \o u.val
       IN  IF u.ok
           THEN /\ wexisting' = [wexisting EXCEPT ![w] = appended]
                /\ wdata' = [wdata EXCEPT ![w] = yamlMarshal(appended)]
                /\ wpc' = [wpc EXCEPT ![w] = "ensure"]
                /\ werr' = werr
           ELSE /\ Return(w, "unmarshal")
                /\ UNCHANGED <<wexisting, wdata>>
    /\ UNCHANGED <<lockVars, dir, content, prior, wtmp, wfd, witem, rdVars>>

\* ReadYAML(path, &existing): a missing file is no error and leaves existing
\* nil; malformed content is returned as the error.  Then
\* existing = append(existing, item) and WriteYAML marshals it and enters
\* AtomicWrite.  os.ReadFile is taken as one step here: the inode a name is
\* bound to is never written again (SpecAtomic).
AppendYAML_ReadYAML(w) ==
    /\ wpc[w] = "readyaml"
    /\ LET u == IF Exists(Target) THEN yamlUnmarshal(content[dir[Target]])
                ELSE [ok |-> TRUE, val |-> <<>>]
           appended == Append(u.val, witem[w])
       IN  IF u.ok
           THEN /\ wexisting' = [wexisting EXCEPT ![w] = appended]
                /\ wdata' = [wdata EXCEPT ![w] = yamlMarshal(appended)]
                /\ wpc' = [wpc EXCEPT ![w] = "ensure"]
                /\ werr' = werr
           ELSE /\ Return(w, "unmarshal")
                /\ UNCHANGED <<wexisting, wdata>>
    /\ UNCHANGED <<lockVars, dir, content, prior, wtmp, wfd, witem, rdVars>>

\* os.ReadFile fails with an error other than fs.ErrNotExist: return err.
AppendYAML_ReadYAMLFail(w) ==
    /\ wpc[w] = "readyaml"
    /\ Exists(Target)
    /\ Return(w, "readfile")
    /\ UNCHANGED <<lockVars, dir, content, prior, wdata, wtmp, wfd, wexisting, witem, rdVars>>

\* ------------------------------------------------------------ SpecAppend
PriorSeqs == UNION {[1..n -> Items] : n \in 0..MaxPrior}

\* The document is missing or holds a marshalled record sequence.
InitAppend == InitFS({<<>>} \cup {<<yamlMarshal(s)>> : s \in PriorSeqs})

NextAppend ==
    \/ \E w \in Writers : AppendYAMLCall(w)
    \/ \E w \in Writers : AppendYAML_ReadYAML(w)
    \/ \E w \in Writers : AppendYAML_ReadYAMLFail(w)
    \/ \E w \in Writers : AtomicWriteStep(w)

SpecAppend == InitAppend /\ [][NextAppend]_vars

\* The record sequence the document held before the calls.
PriorSeq == IF prior = <<>> THEN <<>> ELSE yamlUnmarshal(prior[1]).val

\* What ReadYAML yields now.
ReadBack == IF Exists(Target) THEN yamlUnmarshal(content[dir[Target]])
            ELSE [ok |-> TRUE, val |-> <<>>]

\* C4: once all concurrent AppendYAML calls have returned nil, ReadYAML
\* yields the prior sequence followed by every appended item (in one of the
\* two orders): no append is overwritten by another.
C4_NoAppendLost ==
    (\A w \in Writers : wpc[w] = "done" /\ werr[w] = "nil") =>
        /\ ReadBack.ok
        /\ ReadBack.val \in {PriorSeq \o <<witem[p[1]], witem[p[2]]>> :
                               p \in {q \in Writers \X Writers : q[1] # q[2]}}

\* -------------------------------------------------------------- WithLock
\* The retry loop's constants, in units of lockRetryInterval (50 ms).
lockRetryInterval == 1
lockTimeout == 200
staleLockAge == 600

\* The clock stops at MaxTime; at most MaxSmallTicks of its steps are single
\* retry intervals, the others are whole lock timeouts.
MaxTime == 601
MaxSmallTicks == 1

lkUnch == <<fsVars, variant, reads, pureVars>>

LockExists == lockFile # <<>>

\* The callers whose callback is executing.
Executing == {p \in Procs : pc[p] = "fn2"}

\* The callers that died holding the lock.
Crashed == {p \in Procs : pc[p] = "crashed"}

\* WithLock returns r; its deadline and sleep are over.
LockReturn(p, r) ==
    /\ pc' = [pc EXCEPT ![p] = "done"]
    /\ result' = [result EXCEPT ![p] = r]
    /\ deadline' = [deadline EXCEPT ![p] = 0]

\* The caller now holds the lock and is about to call fn.
Acquired(p) ==
    /\ pc' = [pc EXCEPT ![p] = "fn"]
    /\ lockOrder' = Append(lockOrder, p)

\* ---- lock_unix.go
\* WithLock(dir, fn) is called and EnsureDir(dir) succeeds.
Flock_EnsureDir(p) ==
    /\ variant = "flock"
    /\ pc[p] = "idle"
    /\ pc' = [pc EXCEPT ![p] = "open"]
    /\ crashedAtStart' = [crashedAtStart EXCEPT ![p] = Crashed]
    /\ UNCHANGED <<lkUnch, now, smallTicks, lockFile, flockHolder, deadline,
                   result, cbResult, existing, cur, runs, sawStale, removed,
                   doc, counter, lockOrder>>

\* EnsureDir(dir) fails: return err.  It cannot fail on a directory that
\* already holds the lock file.
Flock_EnsureDirFail(p) ==
    /\ variant = "flock"
    /\ pc[p] = "idle"
    /\ ~LockExists
    /\ LockReturn(p, "mkdir")
    /\ UNCHANGED <<lkUnch, now, smallTicks, lockFile, flockHolder,
                   cbResult, existing, cur, runs, sawStale, removed, crashedAtStart,
                   doc, counter, lockOrder>>

\* os.OpenFile(lockPath, O_CREATE|O_RDWR): the lock file is created if absent.
Flock_OpenFile(p) ==
    /\ variant = "flock"
    /\ pc[p] = "open"
    /\ lockFile' = IF LockExists THEN lockFile ELSE <<[mtime |-> now, owner |-> p]>>
    /\ pc' = [pc EXCEPT ![p] = "flock"]
    /\ UNCHANGED <<lkUnch, now, smallTicks, flockHolder, deadline,
                   result, cbResult, existing, cur, runs, sawStale, removed, crashedAtStart,
                   doc, counter, lockOrder>>

\* os.OpenFile fails: return err.
Flock_OpenFileFail(p) ==
    /\ variant = "flock"
    /\ pc[p] = "open"
    /\ LockReturn(p, "openfile")
    /\ UNCHANGED <<lkUnch, now, smallTicks, lockFile, flockHolder,
                   cbResult, existing, cur, runs, sawStale, removed, crashedAtStart,
                   doc, counter, lockOrder>>

\* Mutant of Flock_Flock: the call does not wait for the holder (LOCK_NB with
\* the error dropped).
Flock_Flock_NoWait(p) ==
    /\ variant = "flock"
    /\ pc[p] = "flock"
    /\ flockHolder' = p
    /\ Acquired(p)
    /\ UNCHANGED <<lkUnch, now, smallTicks, lockFile, deadline,
                   result, cbResult, existing, cur, runs, sawStale, removed, crashedAtStart,
                   doc, counter>>

\* syscall.Flock(fd, LOCK_EX) blocks until no other descriptor holds the lock.
Flock_Flock(p) ==
    /\ variant = "flock"
    /\ pc[p] = "flock"
    /\ flockHolder = "none"
    /\ flockHolder' = p
    /\ Acquired(p)
    /\ UNCHANGED <<lkUnch, now, smallTicks, lockFile, deadline,
                   result, cbResult, existing, cur, runs, sawStale, removed, crashedAtStart,
                   doc, counter>>

\* syscall.Flock fails: the deferred f.Close() runs and err is returned.
Flock_FlockFail(p) ==
    /\ variant = "flock"
    /\ pc[p] = "flock"
    /\ LockReturn(p, "flock")
    /\ UNCHANGED <<lkUnch, now, smallTicks, lockFile, flockHolder,
                   cbResult, existing, cur, runs, sawStale, removed, crashedAtStart,
                   doc, counter, lockOrder>>

\* Mutant of Flock_Unlock: WithLock returns fn's result without the deferred
\* Flock(LOCK_UN) and f.Close(): the descriptor, and the lock, leak.
Flock_Unlock_Leak(p) ==
    /\ variant = "flock"
    /\ pc[p] = "unlock"
    /\ LockReturn(p, cbResult[p])
    /\ UNCHANGED <<lkUnch, now, smallTicks, lockFile, flockHolder,
                   cbResult, existing, cur, runs, sawStale, removed, crashedAtStart,
                   doc, counter, lockOrder>>

\* fn has returned: the deferred Flock(LOCK_UN) and f.Close() run and
\* WithLock returns fn's result.
Flock_Unlock(p) ==
    /\ variant = "flock"
    /\ pc[p] = "unlock"
    /\ flockHolder' = IF flockHolder = p THEN "none" ELSE flockHolder
    /\ LockReturn(p, cbResult[p])
    /\ UNCHANGED <<lkUnch, now, smallTicks, lockFile,
                   cbResult, existing, cur, runs, sawStale, removed, crashedAtStart,
                   doc, counter, lockOrder>>

\* ---- the callback: AppendYAML(path, item) and a counter increment
\* fn starts: ReadYAML gives it the document's sequence, and it reads the counter.
Fn_Read(p) ==
    /\ pc[p] = "fn"
    /\ existing' = [existing EXCEPT ![p] = doc]
    /\ cur' = [cur EXCEPT ![p] = counter]
    /\ runs' = [runs EXCEPT ![p] = @ + 1]
    /\ pc' = [pc EXCEPT ![p] = "fn2"]
    /\ UNCHANGED <<lkUnch, now, smallTicks, lockFile, flockHolder, deadline,
                   result, cbResult, sawStale, removed, crashedAtStart,
                   doc, counter, lockOrder>>

\* fn ends: WriteYAML replaces the document by existing + item (AtomicWrite's
\* rename), the counter is written back incremented, and fn returns nil.
Fn_Write(p) ==
    /\ pc[p] = "fn2"
    /\ doc' = Append(existing[p], p)
    /\ counter' = cur[p] + 1
    /\ cbResult' = [cbResult EXCEPT ![p] = "nil"]
    /\ pc' = [pc EXCEPT ![p] = "unlock"]
    /\ UNCHANGED <<lkUnch, now, smallTicks, lockFile, flockHolder, deadline,
                   result, existing, cur, runs, sawStale, removed, crashedAtStart,
                   lockOrder>>

\* fn ends with an error (AtomicWrite failed): nothing is written.
Fn_Fail(p) ==
    /\ pc[p] = "fn2"
    /\ cbResult' = [cbResult EXCEPT ![p] = "fnerr"]
    /\ pc' = [pc EXCEPT ![p] = "unlock"]
    /\ UNCHANGED <<lkUnch, now, smallTicks, lockFile, flockHolder, deadline,
                   result, existing, cur, runs, sawStale, removed, crashedAtStart,
                   doc, counter, lockOrder>>

\* The process dies while it holds the lock and its callback runs.  The
\* kernel closes its descriptors, which drops the advisory lock; a lock file
\* stays where it is.
Crash(p) ==
    /\ pc[p] = "fn2"
    /\ pc' = [pc EXCEPT ![p] = "crashed"]
    /\ flockHolder' = IF flockHolder = p THEN "none" ELSE flockHolder
    /\ UNCHANGED <<lkUnch, now, smallTicks, lockFile, deadline,
                   result, cbResult, existing, cur, runs, sawStale, removed, crashedAtStart,
                   doc, counter, lockOrder>>

\* ---- the O_CREATE|O_EXCL retry loop
\* WithLock(dir, fn) is called, EnsureDir(dir) succeeds and
\* deadline := time.Now().Add(lockTimeout).
Retry_EnsureDir(p) ==
    /\ variant = "retry"
    /\ pc[p] = "idle"
    /\ pc' = [pc EXCEPT ![p] = "open"]
    /\ deadline' = [deadline EXCEPT ![p] = now + lockTimeout]
    /\ crashedAtStart' = [crashedAtStart EXCEPT ![p] = Crashed]
    /\ UNCHANGED <<lkUnch, now, smallTicks, lockFile, flockHolder,
                   result, cbResult, existing, cur, runs, sawStale, removed,
                   doc, counter, lockOrder>>

\* EnsureDir(dir) fails: return err.
Retry_EnsureDirFail(p) ==
    /\ variant = "retry"
    /\ pc[p] = "idle"
    /\ ~LockExists
    /\ LockReturn(p, "mkdir")
    /\ UNCHANGED <<lkUnch, now, smallTicks, lockFile, flockHolder,
                   cbResult, existing, cur, runs, sawStale, removed, crashedAtStart,
                   doc, counter, lockOrder>>

\* os.OpenFile(lockPath, O_CREATE|O_EXCL|O_WRONLY): creates the lock file when
\* there is none (lock acquired: f.Close(), defer os.Remove, fn is next);
\* fails when it exists (the stale check is next).
Retry_OpenFile(p) ==
    /\ variant = "retry"
    /\ pc[p] = "open"
    /\ IF LockExists
       THEN /\ pc' = [pc EXCEPT ![p] = "stat"]
            /\ UNCHANGED <<lockFile, lockOrder, deadline>>
       ELSE /\ lockFile' = <<[mtime |-> now, owner |-> p]>>
            /\ Acquired(p)
            /\ deadline' = [deadline EXCEPT ![p] = 0]
    /\ UNCHANGED <<lkUnch, now, smallTicks, flockHolder,
                   result, cbResult, existing, cur, runs, sawStale, removed, crashedAtStart,
                   doc, counter>>

\* os.Stat(lockPath) and the staleness test
\* statErr == nil && time.Since(info.ModTime()) > staleLockAge.
Retry_Stat(p) ==
    /\ variant = "retry"
    /\ pc[p] = "stat"
    /\ IF LockExists /\ now - lockFile[1].mtime > staleLockAge
       THEN /\ pc' = [pc EXCEPT ![p] = "remove"]
            /\ sawStale' = [sawStale EXCEPT ![p] = TRUE]
       ELSE /\ pc' = [pc EXCEPT ![p] = "deadline"]
            /\ sawStale' = sawStale
    /\ UNCHANGED <<lkUnch, now, smallTicks, lockFile, flockHolder, deadline,
                   result, cbResult, existing, cur, runs, removed, crashedAtStart,
                   doc, counter, lockOrder>>

\* Mutant of Retry_Remove: the continue is missing, so the removal is followed
\* by the deadline check and the sleep.
Retry_Remove_NoContinue(p) ==
    /\ variant = "retry"
    /\ pc[p] = "remove"
    /\ lockFile' = <<>>
    /\ removed' = [removed EXCEPT ![p] = @ \/ LockExists]
    /\ pc' = [pc EXCEPT ![p] = "deadline"]
    /\ UNCHANGED <<lkUnch, now, smallTicks, flockHolder, deadline,
                   result, cbResult, existing, cur, runs, sawStale, crashedAtStart,
                   doc, counter, lockOrder>>

\* os.Remove(lockPath); continue.  Whatever file is at lockPath now is
\* removed; the error of removing a file that is gone is ignored.
Retry_Remove(p) ==
    /\ variant = "retry"
    /\ pc[p] = "remove"
    /\ lockFile' = <<>>
    /\ removed' = [removed EXCEPT ![p] = @ \/ LockExists]
    /\ pc' = [pc EXCEPT ![p] = "open"]
    /\ UNCHANGED <<lkUnch, now, smallTicks, flockHolder, deadline,
                   result, cbResult, existing, cur, runs, sawStale, crashedAtStart,
                   doc, counter, lockOrder>>

\* os.Remove(lockPath) fails (the file belongs to another user, or is open
\* elsewhere): the error is ignored and the loop continues all the same.
Retry_RemoveFail(p) ==
    /\ variant = "retry"
    /\ pc[p] = "remove"
    /\ LockExists
    /\ pc' = [pc EXCEPT ![p] = "open"]
    /\ UNCHANGED <<lkUnch, now, smallTicks, lockFile, flockHolder, deadline,
                   result, cbResult, existing, cur, runs, sawStale, removed,
                   crashedAtStart, doc, counter, lockOrder>>

\* Mutant of Retry_Deadline: the lock file's removal is deferred before the
\* loop, so a call that times out removes the holder's lock file.
Retry_Deadline_RemovesLock(p) ==
    /\ variant = "retry"
    /\ pc[p] = "deadline"
    /\ IF now > deadline[p]
       THEN /\ LockReturn(p, "timeout")
            /\ lockFile' = <<>>
       ELSE /\ pc' = [pc EXCEPT ![p] = "sleep"]
            /\ UNCHANGED <<result, deadline, lockFile>>
    /\ UNCHANGED <<lkUnch, now, smallTicks, flockHolder,
                   cbResult, existing, cur, runs, sawStale, removed, crashedAtStart,
                   doc, counter, lockOrder>>

\* if time.Now().After(deadline) return the timeout error; else
\* time.Sleep(lockRetryInterval), which the clock's next step ends.
Retry_Deadline(p) ==
    /\ variant = "retry"
    /\ pc[p] = "deadline"
    /\ IF now > deadline[p]
       THEN LockReturn(p, "timeout")
       ELSE /\ pc' = [pc EXCEPT ![p] = "sleep"]
            /\ UNCHANGED <<result, deadline>>
    /\ UNCHANGED <<lkUnch, now, smallTicks, lockFile, flockHolder,
                   cbResult, existing, cur, runs, sawStale, removed, crashedAtStart,
                   doc, counter, lockOrder>>

\* Mutant of Retry_Release: the lock file is not removed on return (the
\* defer is missing).
Retry_Release_NoRemove(p) ==
    /\ variant = "retry"
    /\ pc[p] = "unlock"
    /\ LockReturn(p, cbResult[p])
    /\ UNCHANGED <<lkUnch, now, smallTicks, lockFile, flockHolder,
                   cbResult, existing, cur, runs, sawStale, removed, crashedAtStart,
                   doc, counter, lockOrder>>

\* fn has returned: the deferred os.Remove(lockPath) runs (its error ignored)
\* and WithLock returns fn's result.
Retry_Release(p) ==
    /\ variant = "retry"
    /\ pc[p] = "unlock"
    /\ lockFile' = <<>>
    /\ LockReturn(p, cbResult[p])
    /\ UNCHANGED <<lkUnch, now, smallTicks, flockHolder,
                   cbResult, existing, cur, runs, sawStale, removed, crashedAtStart,
                   doc, counter, lockOrder>>

\* Time passes, by one retry interval or by one lock timeout; either ends
\* every time.Sleep(lockRetryInterval) in progress, and the sleeper's loop
\* starts over.  The clock only matters to the retry loop, and only while a
\* lock file or a call is there to compare it with.
Tick ==
    /\ variant = "retry"
    /\ LockExists \/ \E p \in Procs : pc[p] \notin {"idle", "done", "crashed"}
    /\ \E d \in {lockRetryInterval, lockTimeout} :
         /\ now + d <= MaxTime
         /\ d = lockRetryInterval => smallTicks < MaxSmallTicks
         /\ now' = now + d
         /\ smallTicks' = IF d = lockRetryInterval THEN smallTicks + 1 ELSE smallTicks
    /\ pc' = [p \in Procs |-> IF pc[p] = "sleep" THEN "open" ELSE pc[p]]
    /\ UNCHANGED <<lkUnch, lockFile, flockHolder, deadline,
                   result, cbResult, existing, cur, runs, sawStale, removed, crashedAtStart,
                   doc, counter, lockOrder>>

\* -------------------------------------------------------------- SpecLock
\* No AtomicWrite / AppendYAML call of the byte-level file system is part of
\* SpecLock.
FsUnused ==
    /\ prior = <<>>
    /\ dir = [n \in {} |-> 0]
    /\ content = [i \in {} |-> <<>>]
    /\ wpc = [w \in Writers |-> "idle"]
    /\ wdata = [w \in Writers |-> <<>>]
    /\ wtmp = [w \in Writers |-> ""]
    /\ wfd = [w \in Writers |-> 0]
    /\ werr = [w \in Writers |-> "pending"]
    /\ wexisting = [w \in Writers |-> <<>>]
    /\ witem = [w \in Writers |-> 0]
    /\ rpc = "idle"
    /\ rfd = 0
    /\ rbuf = <<>>
    /\ rerr = "pending"

\* Either build; the directory holds no lock file yet, and the document
\* holds DocPrior.
InitLock ==
    /\ FsUnused
    /\ PureUnused
    /\ variant \in {"flock", "retry"}
    /\ now = 0
    /\ smallTicks = 0
    /\ lockFile = <<>>
    /\ flockHolder = "none"
    /\ pc = [p \in Procs |-> "idle"]
    /\ deadline = [p \in Procs |-> 0]
    /\ result = [p \in Procs |-> "pending"]
    /\ cbResult = [p \in Procs |-> "pending"]
    /\ existing = [p \in Procs |-> <<>>]
    /\ cur = [p \in Procs |-> 0]
    /\ runs = [p \in Procs |-> 0]
    /\ sawStale = [p \in Procs |-> FALSE]
    /\ removed = [p \in Procs |-> FALSE]
    /\ crashedAtStart = [p \in Procs |-> {}]
    /\ doc = DocPrior
    /\ counter = 0
    /\ lockOrder = <<>>
    /\ reads = <<>>

FlockStep(p) ==
    \/ Flock_EnsureDir(p)
    \/ Flock_EnsureDirFail(p)
    \/ Flock_OpenFile(p)
    \/ Flock_OpenFileFail(p)
    \/ Flock_Flock(p)
    \/ Flock_FlockFail(p)
    \/ Flock_Unlock(p)

RetryStep(p) ==
    \/ Retry_EnsureDir(p)
    \/ Retry_EnsureDirFail(p)
    \/ Retry_OpenFile(p)
    \/ Retry_Stat(p)
    \/ Retry_Remove(p)
    \/ Retry_RemoveFail(p)
    \/ Retry_Deadline(p)
    \/ Retry_Release(p)

FnStep(p) ==
    \/ Fn_Read(p)
    \/ Fn_Write(p)
    \/ Fn_Fail(p)

NextLock ==
    \/ \E p \in Procs : FlockStep(p)
    \/ \E p \in Procs : RetryStep(p)
    \/ \E p \in Procs : FnStep(p)
    \/ \E p \in Procs : Crash(p)
    \/ Tick

SpecLock == InitLock /\ [][NextLock]_vars

\* C2: kernel-assisted variant: at most one callback executes at any time.
C2_FlockMutex ==
    variant = "flock" => Cardinality(Executing) <= 1

\* C2 witness: one callback executes while a second caller is blocked in
\* Flock and a third has already run its callback and returned.
C2_Witness ==
    /\ variant = "flock"
    /\ \E p, q, r \in Procs :
         /\ pc[p] = "fn2"
         /\ pc[q] = "flock"
         /\ pc[r] = "done" /\ result[r] = "nil"

\* C3: retry-loop variant: no two callbacks execute in overlapping intervals.
C3_RetryMutex ==
    variant = "retry" => Cardinality(Executing) <= 1

\* C5: every caller wraps AppendYAML in WithLock; once all calls have returned
\* nil the document holds the prior sequence followed by every caller's item
\* exactly once, in the order the callers acquired the lock.
C5_LockedAppendsInLockOrder ==
    (\A p \in Procs : pc[p] = "done" /\ result[p] = "nil") =>
        doc = DocPrior \o lockOrder

InitFlockLive ==
    /\ InitLock
    /\ variant = "flock"

FlockLiveStep(p) ==
    \/ Flock_EnsureDir(p)
    \/ Flock_OpenFile(p)
    \/ Flock_Flock(p)
    \/ Fn_Read(p)
    \/ Fn_Write(p)
    \/ Flock_Unlock(p)

NextFlockLive == \E p \in Procs : FlockLiveStep(p)

\* Every goroutine that can take a step is eventually scheduled; a caller
\* blocked in Flock is woken once the lock is free and stays free.
SpecFlockLive ==
    /\ InitFlockLive
    /\ [][NextFlockLive]_vars
    /\ \A p \in Procs : WF_vars(FlockLiveStep(p))

\* C7: kernel-assisted variant, N concurrent calls with terminating
\* counter-incrementing callbacks: eventually, and from then on, every call
\* has returned nil having run its callback exactly once, and the counter is N.
C7_AllAcquireCounterIsN ==
    <>[](/\ \A p \in Procs : pc[p] = "done" /\ result[p] = "nil" /\ runs[p] = 1
         /\ counter = Cardinality(Procs))

\* C7 witness: the last caller runs its callback, having read the counter the
\* two earlier callers left, after it was blocked behind them.
C7_Witness ==
    \E p \in Procs :
        /\ pc[p] = "fn2"
        /\ cur[p] = Cardinality(Procs) - 1
        /\ Len(lockOrder) = Cardinality(Procs)
        /\ \A q \in Procs \ {p} : pc[q] = "done" /\ result[q] = "nil"

\* ------------------------------------------------- a holder's abnormal exit
\* Every other caller either never called WithLock or had died, holding the
\* lock, before p called it: p has no live competitor.
Alone(p) ==
    \A q \in Procs \ {p} : pc[q] = "idle" \/ q \in crashedAtStart[p]

IOErrors == {"mkdir", "openfile", "flock"}

FreshLock == LockExists /\ now - lockFile[1].mtime <= staleLockAge

\* Caller p of the retry build takes a step of its own.
Steps(p) == variant = "retry" /\ pc'[p] # pc[p]

\* One turn of the loop against a lock file that is there and not stale:
\* the create fails and leaves the file; the stale check passes it by; the
\* deadline check returns the timeout error once the deadline has passed and
\* lets the caller sleep a retry interval otherwise; no step of the turn
\* runs the callback or touches the lock file.
C9_Turn(p) ==
    /\ (pc[p] = "open" /\ LockExists /\ Steps(p)) =>
           pc'[p] = "stat" /\ lockFile' = lockFile
    /\ (pc[p] = "stat" /\ FreshLock /\ Steps(p)) =>
           pc'[p] = "deadline" /\ lockFile' = lockFile /\ sawStale'[p] = sawStale[p]
    /\ (pc[p] = "deadline" /\ Steps(p)) =>
           /\ lockFile' = lockFile
           /\ runs'[p] = 0
           /\ IF now > deadline[p]
              THEN pc'[p] = "done" /\ result'[p] = "timeout"
              ELSE pc'[p] = "sleep" /\ result'[p] = "pending"
    /\ (pc[p] = "sleep" /\ Steps(p)) =>
           /\ pc'[p] = "open"
           /\ now' >= now + lockRetryInterval
           /\ lockFile' = lockFile

\* A call that returned the timeout error never ran its callback, and one
\* that never found the lock file stale never removed it.
C9_TimedOut ==
    \A p \in Procs :
        (variant = "retry" /\ pc[p] = "done" /\ result[p] = "timeout") =>
            /\ runs[p] = 0
            /\ cbResult[p] = "pending"
            /\ ~sawStale[p] => ~removed[p]

\* C9: retry-loop variant: while the lock file exists and is not stale the
\* caller only retries; once its deadline has passed it returns the timeout
\* error as a value; it has then not executed its callback nor removed the
\* lock file.
C9_TimeoutErrorNoCallbackNoRemove ==
    /\ []C9_TimedOut
    /\ [][\A p \in Procs : C9_Turn(p)]_vars

\* C9 witness: a caller returned the timeout error, without having run its
\* callback and without ever having found the lock file stale, while the
\* holder is still inside its callback and its lock file is not stale.
C9_Witness ==
    /\ variant = "retry"
    /\ \E p, q \in Procs :
         /\ pc[p] = "done" /\ result[p] = "timeout"
         /\ ~sawStale[p] /\ runs[p] = 0
         /\ pc[q] = "fn2"
         /\ FreshLock /\ lockFile[1].owner = q

C10_Reclaim(p) ==
    /\ (pc[p] = "stat" /\ LockExists /\ ~FreshLock /\ Steps(p)) =>
           pc'[p] = "remove" /\ sawStale'[p] /\ lockFile' = lockFile
    /\ (pc[p] = "remove" /\ Steps(p)) =>
           /\ pc'[p] = "open"
           /\ lockFile' \in {<<>>, lockFile}
           /\ now' = now
           /\ result'[p] = "pending"
    /\ (pc[p] = "open" /\ ~LockExists /\ Steps(p)) =>
           /\ pc'[p] = "fn"
           /\ lockFile' = <<[mtime |-> now, owner |-> p]>>
    /\ (pc[p] = "fn" /\ Steps(p)) =>
           pc'[p] = "fn2" /\ runs'[p] = 1

RetryCallers == {"p1", "p2"}

InitRetryLive ==
    /\ InitLock
    /\ variant = "retry"

RetryLiveStep(p) ==
    \/ RetryStep(p)
    \/ FnStep(p)

NextRetryLive ==
    \/ \E p \in RetryCallers : RetryLiveStep(p)
    \/ \E p \in RetryCallers : Crash(p)
    \/ Tick

\* A caller that can take a step eventually takes one.  Nothing is assumed of
\* the clock: it may stop.
SpecRetryLive ==
    /\ InitRetryLive
    /\ [][NextRetryLive]_vars
    /\ \A p \in RetryCallers : WF_vars(RetryLiveStep(p))

\* The caller is inside the acquisition loop.
InLoop(p) == pc[p] \in {"open", "stat", "remove", "deadline", "sleep"}

\* C11: retry-loop variant: the wait is bounded: a caller still in the
\* acquisition loop when its deadline has passed leaves the loop (it acquires
\* the lock or returns the timeout error); it never spins forever.
C11_WaitIsBounded ==
    \A p \in RetryCallers :
        (InLoop(p) /\ now > deadline[p]) ~> ~InLoop(p)

\* ------------------------------------------------- AtomicWrite's failures
\* The error each step of AtomicWrite fails with.
StepError ==
    [s \in {"ensure", "create", "write", "close", "rename"} |->
        CASE s = "ensure" -> "mkdir"
          [] s = "create" -> "createtemp"
          [] s = "write"  -> "write"
          [] s = "close"  -> "close"
          [] s = "rename" -> "rename"]

\* The writer's call returns in this step.
Returns(w) == wpc[w] \in DOMAIN StepError /\ wpc'[w] = "done"

\* A call that returns an error returns the error of the step it was at and
\* leaves the target as it is; a call returns nil only from a rename that
\* succeeded; the target only ever changes in the step in which some call's
\* rename succeeds, and then holds that call's data.
C12_Step ==
    /\ \A w \in Writers :
         (Returns(w) /\ werr'[w] # "nil") =>
             /\ werr'[w] = StepError[wpc[w]]
             /\ Visible' = Visible
    /\ \A w \in Writers :
         (Returns(w) /\ werr'[w] = "nil") =>
             wpc[w] = "rename" /\ Visible' = <<wdata[w]>>
    /\ Visible' # Visible =>
           \E w \in Writers :
               /\ Returns(w) /\ wpc[w] = "rename" /\ werr'[w] = "nil"
               /\ Visible' = <<wdata[w]>>

\* C12: AtomicWrite failing at any step returns that step's error, never
\* nil, and the target's content is what it was (absent if it was absent).
C12_FailureReturnsErrorTargetUntouched ==
    /\ [](\A w \in Writers : wpc[w] = "done" => werr[w] # "pending")
    /\ [][C12_Step]_vars

\* C12 witness: a call failed at its last step, the rename, after its whole
\* payload was staged; the target still holds what it held before.
C12_Witness ==
    \E w \in Writers :
        /\ wpc[w] = "done" /\ werr[w] = "rename"
        /\ \A v \in Writers \ {w} : wpc[v] = "idle"
        /\ prior # <<>> /\ Visible = prior

\* The temp file the writer's call created is still in the directory.
TempLeft(w) == Exists(wtmp[w]) /\ wtmp[w] # Target /\ dir[wtmp[w]] = wfd[w]

\* C13: once an AtomicWrite call has returned, the temp file it created is
\* gone from the directory: renamed onto the target or deleted.
C13_NoTempLeftByReturnedCall ==
    \A w \in Writers : wpc[w] = "done" => ~TempLeft(w)

\* -------------------------------------------------------------- ReadYAML
\* A caller invokes ReadYAML(path, &dest); dest is wexisting[w].
ReadYAMLCall(w) ==
    /\ wpc[w] = "idle"
    /\ wpc' = [wpc EXCEPT ![w] = "readfile"]
    /\ UNCHANGED <<lockVars, dir, content, prior, wdata, wtmp, wfd, werr,
                   wexisting, witem, rdVars>>

\* Mutant of ReadYAML_ReadFile: fs.ErrNotExist is returned like any other
\* read error.
ReadYAML_ReadFile_NoAbsence(w) ==
    /\ wpc[w] = "readfile"
    /\ IF Exists(Target)
       THEN /\ wdata' = [wdata EXCEPT ![w] = content[dir[Target]]]
            /\ wpc' = [wpc EXCEPT ![w] = "unmarshal"]
            /\ werr' = werr
       ELSE /\ Return(w, "notexist")
            /\ wdata' = wdata
    /\ UNCHANGED <<lockVars, dir, content, prior, wtmp, wfd, wexisting, witem, rdVars>>

\* os.ReadFile(path): a missing file makes ReadYAML return nil at once, dest
\* untouched; otherwise data is the file's content.
ReadYAML_ReadFile(w) ==
    /\ wpc[w] = "readfile"
    /\ IF Exists(Target)
       THEN /\ wdata' = [wdata EXCEPT ![w] = content[dir[Target]]]
            /\ wpc' = [wpc EXCEPT ![w] = "unmarshal"]
            /\ werr' = werr
       ELSE /\ Return(w, "nil")
            /\ wdata' = wdata
    /\ UNCHANGED <<lockVars, dir, content, prior, wtmp, wfd, wexisting, witem, rdVars>>

\* os.ReadFile fails with an error that is not fs.ErrNotExist: return err.
ReadYAML_ReadFileFail(w) ==
    /\ wpc[w] = "readfile"
    /\ Exists(Target)
    /\ Return(w, "readfile")
    /\ UNCHANGED <<lockVars, dir, content, prior, wdata, wtmp, wfd, wexisting, witem, rdVars>>

\* return yaml.Unmarshal(data, dest): empty data leaves dest as it is.
ReadYAML_Unmarshal(w) ==
    /\ wpc[w] = "unmarshal"
    /\ LET u == yamlUnmarshal(wdata[w])
       IN  IF u.ok
           THEN /\ wexisting' = [wexisting EXCEPT ![w] =
                                    IF wdata[w] = <<>> THEN @ ELSE u.val]
                /\ Return(w, "nil")
           ELSE /\ wexisting' = wexisting
                /\ Return(w, "unmarshal")
    /\ UNCHANGED <<lockVars, dir, content, prior, wdata, wtmp, wfd, witem, rdVars>>

\* ---------------------------------------------------------- SpecReadYAML
\* Documents that are not YAML: a flow sequence that is never closed, alone
\* or after well-formed records.
MalformedDocs == {MarshalItems(s) \o <<91>> : s \in PriorSeqs}

\* What the caller's destination holds when it is passed in.
Dests == {<<>>, <<98>>}

ReadYAMLDocs ==
    {<<>>, <<(<<>>)>>} \cup {<<yamlMarshal(s)>> : s \in PriorSeqs}
                       \cup {<<m>> : m \in MalformedDocs}

\* The document is missing, empty, a marshalled record sequence or malformed;
\* each caller brings a destination of its own.
InitReadYAML ==
    /\ LockUnused
    /\ prior \in ReadYAMLDocs
    /\ dir = IF prior = <<>> THEN [n \in {} |-> 0] ELSE [n \in {Target} |-> 1]
    /\ content = IF prior = <<>> THEN [i \in {} |-> <<>>] ELSE [i \in {1} |-> prior[1]]
    /\ wpc = [w \in Writers |-> "idle"]
    /\ wdata = [w \in Writers |-> <<>>]
    /\ wtmp = [w \in Writers |-> ""]
    /\ wfd = [w \in Writers |-> 0]
    /\ werr = [w \in Writers |-> "pending"]
    /\ wexisting \in [Writers -> Dests]
    /\ witem = [w \in Writers |-> 0]
    /\ rpc = "idle"
    /\ rfd = 0
    /\ rbuf = <<>>
    /\ rerr = "pending"

NextReadYAML ==
    \/ \E w \in Writers : ReadYAMLCall(w)
    \/ \E w \in Writers : ReadYAML_ReadFile(w)
    \/ \E w \in Writers : ReadYAML_ReadFileFail(w)
    \/ \E w \in Writers : ReadYAML_Unmarshal(w)

SpecReadYAML == InitReadYAML /\ [][NextReadYAML]_vars

\* What one step of a ReadYAML call does, by what is at the path: missing:
\* nil is returned and dest is as it was passed in; a read that fails
\* otherwise returns that error; malformed content returns the unmarshal
\* error; an empty document returns nil with dest untouched; a marshalled
\* sequence returns nil with dest holding that sequence.
C14_Step(w) ==
    /\ (wpc[w] = "readfile" /\ wpc'[w] # wpc[w]) =>
           /\ wexisting'[w] = wexisting[w]
           /\ IF ~Exists(Target)
              THEN wpc'[w] = "done" /\ werr'[w] = "nil"
              ELSE \/ wpc'[w] = "done" /\ werr'[w] = "readfile"
                   \/ wpc'[w] = "unmarshal" /\ wdata'[w] = prior[1]
    /\ (wpc[w] = "unmarshal" /\ wpc'[w] # wpc[w]) =>
           /\ wpc'[w] = "done"
           /\ wdata[w] \in MalformedDocs =>
                  werr'[w] = "unmarshal"
           /\ wdata[w] = <<>> =>
                  werr'[w] = "nil" /\ wexisting'[w] = wexisting[w]
           /\ \A s \in PriorSeqs : wdata[w] = yamlMarshal(s) =>
                  werr'[w] = "nil" /\ wexisting'[w] = s

\* C14: ReadYAML of a missing path returns nil and leaves the destination as
\* passed in; any other read failure and malformed content is an error.
C14_MissingIsNilOthersErrors ==
    /\ [](\A w \in Writers : wpc[w] = "done" =>
             /\ ~Exists(Target) => werr[w] = "nil"
             /\ (Exists(Target) /\ prior[1] \in MalformedDocs) =>
                    werr[w] \in {"readfile", "unmarshal"})
    /\ [][\A w \in Writers : C14_Step(w)]_vars

\* C14 witness: the path is missing, a caller passed a non-empty destination
\* and got nil back with the destination as it was; the other caller's
\* destination was empty and is empty.
C14_Witness ==
    /\ ~Exists(Target)
    /\ \E w, v \in Writers :
         /\ wpc[w] = "done" /\ werr[w] = "nil" /\ wexisting[w] = <<98>>
         /\ wpc[v] = "done" /\ werr[v] = "nil" /\ wexisting[v] = <<>>

\* --------------------------------------------------------- SpecAppendSeq
\* One writer calls AppendYAML again and again, each call after the one
\* before has returned, until MaxFiles files were created in the directory
\* (the document's first version and the calls' temp files).
MaxFiles == 3

SeqWriter == "w1"

\* The writer's next AppendYAML(path, item) call: fresh locals.
AppendYAMLAgain(w) ==
    /\ wpc[w] = "done"
    /\ Cardinality(DOMAIN content) < MaxFiles
    /\ \E item \in Items : witem' = [witem EXCEPT ![w] = item]
    /\ wpc' = [wpc EXCEPT ![w] = "readyaml"]
    /\ werr' = [werr EXCEPT ![w] = "pending"]
    /\ wexisting' = [wexisting EXCEPT ![w] = <<>>]
    /\ UNCHANGED <<lockVars, dir, content, prior, wdata, wtmp, wfd, rdVars>>

NextAppendSeq ==
    \/ AppendYAMLCall(SeqWriter)
    \/ AppendYAMLAgain(SeqWriter)
    \/ AppendYAML_ReadYAML(SeqWriter)
    \/ AppendYAML_ReadYAMLFail(SeqWriter)
    \/ AtomicWriteStep(SeqWriter)

SpecAppendSeq == InitAppend /\ [][NextAppendSeq]_vars

\* The step in which the writer's call returns nil makes ReadYAML yield what
\* it yielded before followed by the call's item; every other step, a call
\* returning an error included, leaves what ReadYAML yields as it is.
C15_Step ==
    IF wpc[SeqWriter] # "done" /\ wpc'[SeqWriter] = "done" /\ werr'[SeqWriter] = "nil"
    THEN ReadBack' = [ok |-> TRUE, val |-> Append(ReadBack.val, witem[SeqWriter])]
    ELSE ReadBack' = ReadBack

\* C15: single writer: ReadYAML always yields the sequence S the document
\* started with followed by the items of the successful AppendYAML calls so
\* far, in call order: each successful call adds exactly its item at the end.
C15_SequentialAppendsInCallOrder ==
    /\ [](ReadBack.ok /\ IsPrefix(PriorSeq, ReadBack.val))
    /\ [][C15_Step]_vars

\* C15 witness: two calls have returned nil after one another and ReadYAML
\* yields S followed by two different items, the later call's item last.
C15_Witness ==
    /\ wpc[SeqWriter] = "done" /\ werr[SeqWriter] = "nil"
    /\ Len(ReadBack.val) = Len(PriorSeq) + 2
    /\ ReadBack.val = PriorSeq \o <<97, witem[SeqWriter]>>
    /\ witem[SeqWriter] = 98

\* ------------------------------------------------------------- strings
\* A string is the sequence of its characters.
Delim == <<"-", "-", "-">>
NL == <<"\n">>
CRLF == <<"\r", "\n">>

\* unicode.IsSpace on the characters in use.
IsSpace(c) == c \in {" ", "\n", "\r", "\t"}

\* s[n:] and s[:n] of Go, n counted from 0.
From(s, n) == SubSeq(s, n + 1, Len(s))
Upto(s, n) == SubSeq(s, 1, n)

\* strings.HasPrefix
HasPrefix(s, p) == Len(p) <= Len(s) /\ Upto(s, Len(p)) = p

\* strings.Index: where sub first occurs in s, counted from 0; -1 if nowhere.
Index(s, sub) ==
    LET at == {i \in 0..(Len(s) - Len(sub)) : SubSeq(s, i + 1, i + Len(sub)) = sub}
    IN  IF at = {} THEN -1 ELSE CHOOSE i \in at : \A j \in at : i <= j

\* strings.TrimSpace: leading and trailing white space removed.
RECURSIVE TrimLeft(_)
TrimLeft(s) == IF s # <<>> /\ IsSpace(Head(s)) THEN TrimLeft(Tail(s)) ELSE s

RECURSIVE TrimRight(_)
TrimRight(s) ==
    IF s # <<>> /\ IsSpace(s[Len(s)]) THEN TrimRight(Upto(s, Len(s) - 1)) ELSE s

TrimSpace(s) == TrimRight(TrimLeft(s))

\* ---------------------------------------------------------- frontmatter
\* One leading line break ("\n" or "\r\n") skipped, as both places of
\* ParseFrontmatter do it.
SkipLineBreak(s) ==
    IF Len(s) > 0 /\ s[1] = "\n" THEN From(s, 1)
    ELSE IF Len(s) > 1 /\ s[1] = "\r" /\ s[2] = "\n" THEN From(s, 2)
    ELSE s

\* ParseFrontmatter(content) = [yamlStr, body]; text is its content argument.
ParseFrontmatter(text) ==
    LET trimmed == TrimSpace(text)
    IN  IF ~HasPrefix(trimmed, Delim)
        THEN [yamlStr |-> <<>>, body |-> text]
        ELSE LET rest == SkipLineBreak(From(trimmed, 3))
                 closingIdx == Index(rest, NL \o Delim)
             IN  IF closingIdx < 0
                 THEN [yamlStr |-> <<>>, body |-> text]
                 ELSE [yamlStr |-> Upto(rest, closingIdx),
                       body |-> SkipLineBreak(From(rest, closingIdx + 4))]

\* RenderFrontmatter(metadata, body), yamlBytes being yaml.Marshal(metadata).
RenderFrontmatter(yamlBytes, body) ==
    Delim \o NL \o yamlBytes \o Delim \o NL \o body

\* ---------------------------------------------------------- SpecRoundTrip
\* Longest body handed to RenderFrontmatter, in characters.
MaxBody == 3

BodyChars == {"a", "-", " ", "\n", "\r"}

Bodies == UNION {[1..n -> BodyChars] : n \in 0..MaxBody}

\* What yaml.Marshal writes for some metadata values: a mapping of one and of
\* two keys, an empty mapping, a sequence.
MetaDocs ==
    { <<"a", ":", " ", "a", "\n">>,
      <<"a", ":", " ", "a", "\n", "b", ":", " ", "a", "\n">>,
      <<"{", "}", "\n">>,
      <<"-", " ", "a", "\n">> }

\* Neither a file nor a lock operation is part of the string specifications.
FilesAndLockUnused ==
    /\ FsUnused
    /\ LockIdle

SlugUnused ==
    /\ slugS = <<>>
    /\ slugPc = "idle"
    /\ slugBase = <<>>
    /\ slugTaken = {}
    /\ slugI = 0
    /\ slugOut = <<>>

InitRoundTrip ==
    /\ FilesAndLockUnused
    /\ SlugUnused
    /\ fmPc = "idle"
    /\ fmMeta \in MetaDocs
    /\ fmBody \in Bodies
    /\ fmContent = <<>>
    /\ fmOut = <<>>

\* content, err := RenderFrontmatter(metadata, body)
Render ==
    /\ fmPc = "idle"
    /\ fmContent' = RenderFrontmatter(fmMeta, fmBody)
    /\ fmPc' = "rendered"
    /\ UNCHANGED <<fsVars, variant, now, smallTicks, lockFile, flockHolder, pc,
                   deadline, result, cbResult, existing, cur, runs, sawStale,
                   removed, crashedAtStart, doc, counter, lockOrder, reads,
                   fmMeta, fmBody, fmOut,
                   slugS, slugPc, slugBase, slugTaken, slugI, slugOut>>

\* yamlStr, body := ParseFrontmatter(content)
Parse ==
    /\ fmPc \in {"rendered", "given"}
    /\ fmOut' = ParseFrontmatter(fmContent)
    /\ fmPc' = "parsed"
    /\ UNCHANGED <<fsVars, variant, now, smallTicks, lockFile, flockHolder, pc,
                   deadline, result, cbResult, existing, cur, runs, sawStale,
                   removed, crashedAtStart, doc, counter, lockOrder, reads,
                   fmMeta, fmBody, fmContent,
                   slugS, slugPc, slugBase, slugTaken, slugI, slugOut>>

NextRoundTrip == Render \/ Parse

SpecRoundTrip == InitRoundTrip /\ [][NextRoundTrip]_vars

\* C16: frontmatter round trip: parsing what RenderFrontmatter(M, B) wrote
\* gives the metadata text serialize(M), up to its final line break, and a
\* body equal to B.
C16_RoundTrip ==
    fmPc = "parsed" =>
        /\ fmOut.yamlStr \in {fmMeta, Upto(fmMeta, Len(fmMeta) - 1)}
        /\ fmOut.body = fmBody

\* -------------------------------------------------------------- SpecParse
\* The contents handed to ParseFrontmatter are made of at most MaxTokens of
\* these pieces.
MaxTokens == 6

Tokens == {Delim, NL, CRLF, <<"a">>, <<" ">>}

RECURSIVE Concat(_)
Concat(ts) == IF ts = <<>> THEN <<>> ELSE Head(ts) \o Concat(Tail(ts))

Contents == {Concat(ts) : ts \in UNION {[1..n -> Tokens] : n \in 0..MaxTokens}}

InitParse ==
    /\ FilesAndLockUnused
    /\ SlugUnused
    /\ fmPc = "given"
    /\ fmMeta = <<>>
    /\ fmBody = <<>>
    /\ fmContent \in Contents
    /\ fmOut = <<>>

SpecParse == InitParse /\ [][Parse]_vars

\* A line consisting of the delimiter starts right after the line break at
\* position i (counted from 0) of text c.
DelimLineAt(c, i) ==
    /\ SubSeq(c, i + 1, i + 4) = NL \o Delim
    /\ \/ i + 4 = Len(c)
       \/ HasPrefix(From(c, i + 4), NL)
       \/ HasPrefix(From(c, i + 4), CRLF)

\* The text has a line consisting of the delimiter after its first line.
HasLaterDelimLine(c) == \E i \in 3..(Len(c) - 4) : DelimLineAt(c, i)

\* C17: content without the delimiter at its very start, or without a later
\* line consisting of the delimiter, comes back whole as the body, with
\* empty metadata.
C17_NoFrontmatterReturnsContent ==
    (fmPc = "parsed" /\ (~HasPrefix(fmContent, Delim) \/ ~HasLaterDelimLine(fmContent))) =>
        fmOut = [yamlStr |-> <<>>, body |-> fmContent]

\* The text's first line consists of the delimiter.
HasOpeningLine(c) == HasPrefix(c, Delim \o NL) \/ HasPrefix(c, Delim \o CRLF)

\* Where the first line ends and where the closing delimiter line's
\* preceding line break is (both counted from 0).
OpeningEnd(c) == IF HasPrefix(c, Delim \o NL) THEN 4 ELSE 5
ClosingAt(c) ==
    CHOOSE i \in 3..(Len(c) - 4) :
        /\ DelimLineAt(c, i)
        /\ \A j \in 3..(Len(c) - 4) : DelimLineAt(c, j) => i <= j

\* C18: content with an opening and a later closing delimiter line: the
\* metadata is the text between the two lines (with or without the line
\* break that ends it), the body is everything after the closing line with
\* at most one line break removed from its front and nothing else changed.
C18_SplitsAtDelimiterLines ==
    (fmPc = "parsed" /\ HasOpeningLine(fmContent) /\ HasLaterDelimLine(fmContent)) =>
        LET between == SubSeq(fmContent, OpeningEnd(fmContent) + 1, ClosingAt(fmContent) + 1)
            after == From(fmContent, ClosingAt(fmContent) + 4)
        IN  /\ fmOut.yamlStr \in {between, Upto(between, Len(between) - 1)}
            /\ fmOut.body \in {after, SkipLineBreak(after)}

\* ----------------------------------------------------- Slugify, UniqueSlug
Uppers == <<"A", "B", "C", "D", "E", "F", "G", "H", "I", "J", "K", "L", "M",
            "N", "O", "P", "Q", "R", "S", "T", "U", "V", "W", "X", "Y", "Z">>

Lowers == <<"a", "b", "c", "d", "e", "f", "g", "h", "i", "j", "k", "l", "m",
            "n", "o", "p", "q", "r", "s", "t", "u", "v", "w", "x", "y", "z">>

DigitChars == <<"0", "1", "2", "3", "4", "5", "6", "7", "8", "9">>

\* strings.ToLower, character by character
ToLowerChar(c) ==
    IF \E k \in 1..Len(Uppers) : Uppers[k] = c
    THEN Lowers[CHOOSE k \in 1..Len(Uppers) : Uppers[k] = c]
    ELSE c

ToLower(s) == [k \in 1..Len(s) |-> ToLowerChar(s[k])]

\* The characters the class [a-z0-9] matches.
IsSlugChar(c) ==
    \/ \E k \in 1..Len(Lowers) : Lowers[k] = c
    \/ \E k \in 1..Len(DigitChars) : DigitChars[k] = c

\* nonAlphanumeric.ReplaceAllString(s, "-"): every maximal run of characters
\* outside [a-z0-9] becomes one hyphen.
RECURSIVE ReplaceNonAlphanumeric(_)
ReplaceNonAlphanumeric(s) ==
    IF s = <<>> THEN <<>>
    ELSE IF IsSlugChar(Head(s)) THEN <<Head(s)>> \o ReplaceNonAlphanumeric(Tail(s))
    ELSE IF Len(s) > 1 /\ ~IsSlugChar(s[2]) THEN ReplaceNonAlphanumeric(Tail(s))
    ELSE <<"-">> \o ReplaceNonAlphanumeric(Tail(s))

\* consecutiveHyphens.ReplaceAllString(s, "-"): every run of two or more
\* hyphens becomes one.
RECURSIVE CollapseHyphens(_)
CollapseHyphens(s) ==
    IF s = <<>> THEN <<>>
    ELSE IF Head(s) = "-" /\ Len(s) > 1 /\ s[2] = "-" THEN CollapseHyphens(Tail(s))
    ELSE <<Head(s)>> \o CollapseHyphens(Tail(s))

\* strings.Trim(s, "-")
RECURSIVE TrimHyphens(_)
TrimHyphens(s) ==
    IF s = <<>> THEN <<>>
    ELSE IF Head(s) = "-" THEN TrimHyphens(Tail(s))
    ELSE IF s[Len(s)] = "-" THEN TrimHyphens(SubSeq(s, 1, Len(s) - 1))
    ELSE s

Untitled == <<"u", "n", "t", "i", "t", "l", "e", "d">>

Slugify(s) ==
    LET slug == TrimHyphens(CollapseHyphens(ReplaceNonAlphanumeric(ToLower(s))))
    IN  IF slug = <<>> THEN Untitled ELSE slug

\* The %d of fmt.Sprintf, for i >= 0.
RECURSIVE Itoa(_)
Itoa(i) ==
    IF i < 10 THEN <<DigitChars[i + 1]>>
    ELSE Itoa(i \div 10) \o <<DigitChars[(i % 10) + 1]>>

\* candidate := fmt.Sprintf("%s-%d", base, i)
Candidate(base, i) == base \o <<"-">> \o Itoa(i)

\* exists(candidate), for a callback that answers from a fixed set of slugs
SlugExists(c) == c \in slugTaken

\* ------------------------------------------------------------- SpecSlug
\* Longest string handed to UniqueSlug, in characters.
MaxTitle == 3

\* Largest suffix number among the slugs that can be taken.
MaxSuffix == 4

TitleChars == {"a", "A", "1", "-", " "}

Titles == UNION {[1..n -> TitleChars] : n \in 0..MaxTitle}

\* The slugs exists may answer true for: the base slug of s and its first
\* numbered candidates.
TakenSets(s) ==
    SUBSET ({Slugify(s)} \cup {Candidate(Slugify(s), i) : i \in 2..MaxSuffix})

slugUnch == <<fsVars, variant, now, smallTicks, lockFile, flockHolder, pc,
              deadline, result, cbResult, existing, cur, runs, sawStale,
              removed, crashedAtStart, doc, counter, lockOrder, reads,
              fmPc, fmMeta, fmBody, fmContent, fmOut>>

InitSlug ==
    /\ FilesAndLockUnused
    /\ PureUnused

\* UniqueSlug(s, exists) is called with some string and some callback:
\* base := Slugify(s)
UniqueSlug_Call ==
    /\ slugPc = "idle"
    /\ \E s \in Titles :
           /\ slugS' = s
           /\ slugTaken' \in TakenSets(s)
           /\ slugBase' = Slugify(s)
    /\ slugPc' = "base"
    /\ UNCHANGED <<slugUnch, slugI, slugOut>>

\* if !exists(base) { return base }
UniqueSlug_ReturnBase ==
    /\ slugPc = "base"
    /\ ~SlugExists(slugBase)
    /\ slugOut' = slugBase
    /\ slugPc' = "done"
    /\ UNCHANGED <<slugUnch, slugS, slugBase, slugTaken, slugI>>

\* A loop that starts its numbering at 1.
UniqueSlug_EnterLoop_FromOne ==
    /\ slugPc = "base"
    /\ SlugExists(slugBase)
    /\ slugI' = 1
    /\ slugPc' = "loop"
    /\ UNCHANGED <<slugUnch, slugS, slugBase, slugTaken, slugOut>>

\* exists(base) is true: for i := 2; ...
UniqueSlug_EnterLoop ==
    /\ slugPc = "base"
    /\ SlugExists(slugBase)
    /\ slugI' = 2
    /\ slugPc' = "loop"
    /\ UNCHANGED <<slugUnch, slugS, slugBase, slugTaken, slugOut>>

\* exists(candidate) is true: i++
UniqueSlug_Next ==
    /\ slugPc = "loop"
    /\ SlugExists(Candidate(slugBase, slugI))
    /\ slugI' = slugI + 1
    /\ UNCHANGED <<slugUnch, slugS, slugPc, slugBase, slugTaken, slugOut>>

\* if !exists(candidate) { return candidate }
UniqueSlug_ReturnCandidate ==
    /\ slugPc = "loop"
    /\ ~SlugExists(Candidate(slugBase, slugI))
    /\ slugOut' = Candidate(slugBase, slugI)
    /\ slugPc' = "done"
    /\ UNCHANGED <<slugUnch, slugS, slugBase, slugTaken, slugI>>

NextSlug ==
    \/ UniqueSlug_Call
    \/ UniqueSlug_ReturnBase
    \/ UniqueSlug_EnterLoop
    \/ UniqueSlug_Next
    \/ UniqueSlug_ReturnCandidate

\* The call is the only thing running: it takes its next step.
SpecSlug == InitSlug /\ [][NextSlug]_vars /\ WF_vars(NextSlug)

\* The i >= 2 whose candidate is free while every smaller one is taken.
IsSmallestFree(i) ==
    /\ i >= 2
    /\ ~SlugExists(Candidate(Slugify(slugS), i))
    /\ \A j \in 2..(i - 1) : SlugExists(Candidate(Slugify(slugS), j))

C19_Returned ==
    slugPc = "done" =>
        /\ ~SlugExists(Slugify(slugS)) => slugOut = Slugify(slugS)
        /\ SlugExists(Slugify(slugS)) =>
               \E i \in 2..(MaxSuffix + 1) :
                   /\ IsSmallestFree(i)
                   /\ slugOut = Candidate(Slugify(slugS), i)
        /\ ~SlugExists(slugOut)

\* The candidates are probed in ascending order, one after the other, from 2.
C19_Ascending ==
    /\ (slugPc = "base" /\ slugPc' = "loop") => slugI' = 2
    /\ (slugPc = "loop" /\ slugPc' = "loop") => slugI' = slugI + 1
    /\ slugPc # "idle" => slugTaken' = slugTaken

\* C19: UniqueSlug(s, exists) returns Slugify(s) when exists(Slugify(s)) is
\* false, and otherwise base-i for the smallest i >= 2, probed in ascending
\* order, for which exists(base-i) is false; the returned value never
\* satisfies exists, and the call terminates whenever such an i exists.
C19_UniqueSlugSmallestFree ==
    /\ []C19_Returned
    /\ [][C19_Ascending]_vars
    /\ (slugPc # "idle" /\ \E i \in 2..(MaxSuffix + 1) : IsSmallestFree(i))
           ~> (slugPc = "done")

\* A call that found the base and the candidates 2 and 3 taken has returned.
C19_Witness ==
    /\ slugPc = "done"
    /\ SlugExists(Slugify(slugS))
    /\ SlugExists(Candidate(Slugify(slugS), 2))
    /\ SlugExists(Candidate(Slugify(slugS), 3))
    /\ slugOut = Candidate(Slugify(slugS), 4)

\* ------------------------------------------------------ SpecLockedAppend
\* Two callers wrap AppendYAML(path, item) in WithLock (either build), with
\* the document and AtomicWrite at byte level, while a reader calls ReadYAML
\* on the same path without the lock, at most MaxReads times.  The document
\* does not exist before the calls.
MaxReads == 2

LockedCallers == {"p1", "p2"}

\* The AppendYAML call the caller's callback makes, and the item it appends.
WriterOf(p) == IF p = "p1" THEN "w1" ELSE "w2"
ItemOf(p) == IF p = "p1" THEN 97 ELSE 98

InitLockedAppend ==
    /\ PureUnused
    /\ variant \in {"flock", "retry"}
    /\ now = 0
    /\ smallTicks = 0
    /\ lockFile = <<>>
    /\ flockHolder = "none"
    /\ pc = [p \in Procs |-> "idle"]
    /\ deadline = [p \in Procs |-> 0]
    /\ result = [p \in Procs |-> "pending"]
    /\ cbResult = [p \in Procs |-> "pending"]
    /\ existing = [p \in Procs |-> <<>>]
    /\ cur = [p \in Procs |-> 0]
    /\ runs = [p \in Procs |-> 0]
    /\ sawStale = [p \in Procs |-> FALSE]
    /\ removed = [p \in Procs |-> FALSE]
    /\ crashedAtStart = [p \in Procs |-> {}]
    /\ doc = DocPrior
    /\ counter = 0
    /\ lockOrder = <<>>
    /\ reads = <<>>
    /\ FsUnused

\* fn starts: it calls AppendYAML(path, item).
LockedFn_Call(p) ==
    /\ pc[p] = "fn"
    /\ wpc[WriterOf(p)] = "idle"
    /\ pc' = [pc EXCEPT ![p] = "fn2"]
    /\ runs' = [runs EXCEPT ![p] = @ + 1]
    /\ wpc' = [wpc EXCEPT ![WriterOf(p)] = "readyaml"]
    /\ witem' = [witem EXCEPT ![WriterOf(p)] = ItemOf(p)]
    /\ UNCHANGED <<variant, reads, pureVars, now, smallTicks, lockFile, flockHolder,
                   deadline, result, cbResult, existing, cur, sawStale, removed,
                   crashedAtStart, doc, counter, lockOrder,
                   dir, content, prior, wdata, wtmp, wfd, werr, wexisting, rdVars>>

\* A step of the AppendYAML call the callback is in.
LockedFn_Step(p) ==
    /\ pc[p] = "fn2"
    /\ \/ AppendYAML_ReadYAML(WriterOf(p))
       \/ AppendYAML_ReadYAMLFail(WriterOf(p))
       \/ AtomicWrite_EnsureDir(WriterOf(p))
       \/ AtomicWrite_EnsureDirFail(WriterOf(p))
       \/ AtomicWrite_CreateTemp(WriterOf(p))
       \/ AtomicWrite_CreateTempFail(WriterOf(p))
       \/ AtomicWrite_Write(WriterOf(p))
       \/ AtomicWrite_WriteFail(WriterOf(p))
       \/ AtomicWrite_Close(WriterOf(p))
       \/ AtomicWrite_CloseFail(WriterOf(p))
       \/ AtomicWrite_Rename(WriterOf(p))
       \/ AtomicWrite_RenameFail(WriterOf(p))

\* fn returns what AppendYAML returned.
LockedFn_Return(p) ==
    /\ pc[p] = "fn2"
    /\ wpc[WriterOf(p)] = "done"
    /\ cbResult' = [cbResult EXCEPT ![p] =
                       IF werr[WriterOf(p)] = "nil" THEN "nil" ELSE "fnerr"]
    /\ pc' = [pc EXCEPT ![p] = "unlock"]
    /\ UNCHANGED <<lkUnch, now, smallTicks, lockFile, flockHolder, deadline,
                   result, existing, cur, runs, sawStale, removed, crashedAtStart,
                   doc, counter, lockOrder>>

\* ReadYAML, called without the lock, returns: a missing file leaves the
\* destination nil, anything else is what yaml.Unmarshal makes of the bytes
\* read.  The reader may then call ReadYAML again.
Unlocked_ReadYAML_Return ==
    /\ rpc = "done"
    /\ Len(reads) < MaxReads
    /\ reads' = Append(reads, IF rerr = "notexist" THEN [ok |-> TRUE, val |-> <<>>]
                              ELSE yamlUnmarshal(rbuf))
    /\ rpc' = IF Len(reads) + 1 < MaxReads THEN "idle" ELSE "returned"
    /\ rfd' = 0
    /\ rbuf' = <<>>
    /\ rerr' = "pending"
    /\ UNCHANGED <<variant, pureVars, now, smallTicks, lockFile, flockHolder, pc,
                   deadline, result, cbResult, existing, cur, runs, sawStale, removed,
                   crashedAtStart, doc, counter, lockOrder,
                   dir, content, prior, wrVars>>

UnlockedReaderStep ==
    \/ ReadFile_Open
    \/ ReadFile_Read
    \/ Unlocked_ReadYAML_Return

NextLockedAppend ==
    \/ \E p \in LockedCallers : FlockStep(p)
    \/ \E p \in LockedCallers : RetryStep(p)
    \/ \E p \in LockedCallers : LockedFn_Call(p)
    \/ \E p \in LockedCallers : LockedFn_Step(p)
    \/ \E p \in LockedCallers : LockedFn_Return(p)
    \/ \E p \in LockedCallers : Crash(p)
    \/ Tick
    \/ UnlockedReaderStep

SpecLockedAppend == InitLockedAppend /\ [][NextLockedAppend]_vars

\* Every WithLock call has returned or its process has died.
AllCallsOver == \A p \in LockedCallers : pc[p] \in {"done", "crashed"}

\* C20: while WithLock-wrapped AppendYAML calls run on a path, every ReadYAML
\* made without the lock completes without waiting for the lock (the reader
\* can always take its next step), returns a complete sequence that is a
\* prefix of the final sequence, and successive reads never return a shorter
\* sequence than an earlier read.
C20_UnlockedReadsArePrefixes ==
    /\ rpc \in {"idle", "reading"} => ENABLED UnlockedReaderStep
    /\ \A i \in 1..Len(reads) : reads[i].ok
    /\ AllCallsOver => \A i \in 1..Len(reads) : IsPrefix(reads[i].val, ReadBack.val)
    /\ \A i, j \in 1..Len(reads) : i < j => Len(reads[i].val) <= Len(reads[j].val)

\* ------------------------------------------- concurrent AtomicWrite calls
\* The writer's call has created its temp file and not yet returned.
Staging(w) == wpc[w] \in {"write", "close", "rename"}

\* The writer's call returns nil in this step: its rename succeeded.
Renames(w) == wpc[w] = "rename" /\ wpc'[w] = "done" /\ werr'[w] = "nil"

C21_State ==
    \* each call stages into a temp file of its own, under a name of its own
    /\ \A w \in Writers :
         Staging(w) => wtmp[w] \in TmpNames /\ Exists(wtmp[w]) /\ dir[wtmp[w]] = wfd[w]
    /\ \A w, v \in Writers :
         (w # v /\ Staging(w) /\ Staging(v)) => wtmp[w] # wtmp[v] /\ wfd[w] # wfd[v]
    \* whatever the other call does, the step that succeeds can be taken
    /\ \A w \in Writers :
         /\ wpc[w] = "ensure" => ENABLED AtomicWrite_EnsureDir(w)
         /\ wpc[w] = "create" => ENABLED AtomicWrite_CreateTemp(w)
         /\ wpc[w] = "write"  => ENABLED AtomicWrite_Write(w)
         /\ wpc[w] = "close"  => ENABLED AtomicWrite_Close(w)
         /\ wpc[w] = "rename" => ENABLED AtomicWrite_Rename(w)
    \* after both have returned nil: one of the payloads, and no temp file
    /\ (\A w \in Writers : wpc[w] = "done" /\ werr[w] = "nil") =>
         /\ \E w \in Writers : Visible = <<wdata[w]>>
         /\ DOMAIN dir = {Target}

C21_Step ==
    \* the bytes staged by a call are written by that call alone
    /\ \A w \in Writers :
         (Staging(w) /\ content'[wfd[w]] # content[wfd[w]]) =>
             /\ wpc[w] = "write"
             /\ IsPrefix(content'[wfd[w]], wdata[w])
    \* the target holds the payload of the call whose rename happened last
    /\ \A w \in Writers : Renames(w) => Visible' = <<wdata[w]>>
    /\ Visible' # Visible => \E w \in Writers : Renames(w)

\* C21: two concurrent AtomicWrite calls to the same path each stage into
\* their own uniquely named temp file, neither blocks or fails because of
\* the other, and after both have returned (nil) the target equals exactly
\* P1 or exactly P2, the payload whose rename happened last, with no temp
\* file left behind.
C21_ConcurrentWritesLastRenameWins ==
    /\ []C21_State
    /\ [][C21_Step]_vars

\* C21 witness: both calls returned nil with different payloads; w1 created
\* its temp file before w2 did and renamed it after w2's rename, so the two
\* calls overlapped and the target holds w1's payload.
C21_Witness ==
    /\ \A w \in Writers : wpc[w] = "done" /\ werr[w] = "nil"
    /\ wdata["w1"] # wdata["w2"]
    /\ wfd["w1"] < wfd["w2"]
    /\ dir[Target] = wfd["w1"]
    /\ Visible = <<wdata["w1"]>>

\* ------------------------------------------- who removes which lock file
\* The caller created the lock file, is alive, and has not returned.
Holds(q) == pc[q] \in {"fn", "fn2", "unlock"}

\* Caller p removes the lock file that is at the path in this step.
RemovesLock(p) == Steps(p) /\ LockExists /\ lockFile' = <<>>

\* A removal is the release of the file the caller itself created, or the
\* removal of a file that is stale (a file seen stale at the earlier stat is
\* still stale); the file removed is never one that another caller created
\* since (another's file at a release, a file that is not stale at a
\* stale-removal) and holds.
C22_Removal(p) ==
    RemovesLock(p) =>
        /\ \/ pc[p] = "unlock" /\ lockFile[1].owner = p
           \/ pc[p] = "remove" /\ ~FreshLock
        /\ ~(/\ lockFile[1].owner # p
             /\ Holds(lockFile[1].owner)
             /\ pc[p] = "unlock" \/ FreshLock)

\* C22: retry-loop variant: a lock file is removed only by the caller that
\* created it (on release) or by a caller that observed that same file to be
\* stale; a release, and a stale-removal decided from an earlier stat, never
\* delete a lock file that a different caller created in the meantime and
\* currently holds.
C22_LockFileRemovedByOwnerOrStaleFinder ==
    [][\A p \in Procs : C22_Removal(p)]_vars

\* --------------------------------------------------------- SpecReentrant
\* One process calls WithLock(dir, fn) and fn calls WithLock(dir, inner) on
\* the same directory.  The outer call is caller Outer; the inner call runs
\* the same code on a descriptor and a deadline of its own and is caller
\* Inner: it starts once fn runs, and fn goes on once it has returned.
Outer == "p1"
Inner == "p2"

InitReentrant == InitLock

\* The outer call up to its callback, and its release.  No other process
\* uses the directory, so the outer call of the retry build finds no lock
\* file and never reaches its stale or deadline check.
Reentrant_Outer ==
    \/ Flock_EnsureDir(Outer)
    \/ Flock_EnsureDirFail(Outer)
    \/ Flock_OpenFile(Outer)
    \/ Flock_OpenFileFail(Outer)
    \/ Flock_Flock(Outer)
    \/ Flock_FlockFail(Outer)
    \/ Flock_Unlock(Outer)
    \/ Retry_EnsureDir(Outer)
    \/ Retry_EnsureDirFail(Outer)
    \/ Retry_OpenFile(Outer)
    \/ Retry_Release(Outer)
    \/ Fn_Read(Outer)

\* fn calls WithLock(dir, inner): the steps of the inner call.
Reentrant_Inner ==
    /\ pc[Outer] = "fn2"
    /\ \/ FlockStep(Inner)
       \/ RetryStep(Inner)
       \/ FnStep(Inner)

\* The inner call has returned: fn finishes.
Reentrant_FnEnd ==
    /\ pc[Inner] = "done"
    /\ \/ Fn_Write(Outer)
       \/ Fn_Fail(Outer)

NextReentrant ==
    \/ Reentrant_Outer
    \/ Reentrant_Inner
    \/ Reentrant_FnEnd
    \/ Tick

SpecReentrant == InitReentrant /\ [][NextReentrant]_vars

\* The inner callback is never run; an inner call of the retry build that
\* has returned returned the timeout error.
C23_State ==
    /\ runs[Inner] = 0
    /\ pc[Inner] \notin {"fn", "fn2", "unlock"}
    /\ (variant = "retry" /\ pc[Inner] = "done") => result[Inner] = "timeout"

\* Kernel variant: the inner call never gets past Flock while fn runs (a
\* failing system call apart); retry-loop variant: the inner call returns
\* only once its deadline, 10 s after the call, has passed.
C23_Step ==
    /\ (variant = "flock" /\ pc[Inner] = "flock") =>
           \/ pc'[Inner] = "flock"
           \/ pc'[Inner] = "done" /\ result'[Inner] = "flock"
    /\ (variant = "retry" /\ pc[Inner] # "done" /\ pc'[Inner] = "done") =>
           /\ result'[Inner] = "timeout"
           /\ now > deadline[Inner]

\* C23: WithLock is not re-entrant: a callback that calls WithLock on the
\* same directory from inside its own critical section never gets its inner
\* callback run; in the kernel variant the inner call blocks forever on a
\* second descriptor of the lock file, in the retry-loop variant it returns
\* the timeout error after the 10 s deadline.
C23_InnerCallbackNeverRuns ==
    /\ []C23_State
    /\ [][C23_Step]_vars

====
